---- MODULE Spec2Model ----
(***************************************************************************)
(* Model of src/main.py: the /extract-data request handler and the helper  *)
(* functions it calls (validate_pdf, validate_image, convert_pdf_to_image, *)
(* extract_text_from_image, detect_document_type, extract_data).           *)
(*                                                                         *)
(* Python strings are sequences of one-character strings, so that lower(), *)
(* strip(), endswith() and the `in` substring test are computed as Python  *)
(* computes them.  The bytes of an upload are represented by what the two  *)
(* decoders (PyMuPDF, PIL) do with them.  The generative service is the    *)
(* environment: its answers are drawn from bounded sets.                   *)
(***************************************************************************)
EXTENDS Integers, Sequences, FiniteSets, TLC

VARIABLES pc, file, service, file_content, is_pdf, is_image, img_data,
          extracted_text, document_type, prompt, exc, response,
          open_handles, opened, calls

vars == <<pc, file, service, file_content, is_pdf, is_image, img_data,
          extracted_text, document_type, prompt, exc, response,
          open_handles, opened, calls>>

(***************************************************************************)
(* Bounds of the model.                                                    *)
(***************************************************************************)
\* number of fragments the transcribed text is assembled from
MaxFrags == 2

(***************************************************************************)
(* Python str operations.                                                  *)
(***************************************************************************)
UpperChars == <<"A","B","C","D","E","F","G","H","I","J","K","L","M","N","O","P","Q","R","S","T","U","V","W","X","Y","Z">>
LowerChars == <<"a","b","c","d","e","f","g","h","i","j","k","l","m","n","o","p","q","r","s","t","u","v","w","x","y","z">>
Whitespace == {" ", "\n"}

LowerChar(c) ==
    IF \E i \in 1..Len(UpperChars) : UpperChars[i] = c
    THEN LowerChars[CHOOSE i \in 1..Len(UpperChars) : UpperChars[i] = c]
    ELSE c

\* str.lower()
lower(s) == [i \in 1..Len(s) |-> LowerChar(s[i])]

\* `kw in s`
Contains(s, kw) ==
    \E i \in 0..(Len(s) - Len(kw)) : SubSeq(s, i + 1, i + Len(kw)) = kw

\* str.endswith(suffix)
endswith(s, suffix) ==
    /\ Len(s) >= Len(suffix)
    /\ SubSeq(s, Len(s) - Len(suffix) + 1, Len(s)) = suffix

\* str.strip()
strip(s) ==
    LET keep == {i \in 1..Len(s) : s[i] \notin Whitespace}
    IN  IF keep = {} THEN <<>>
        ELSE SubSeq(s, CHOOSE i \in keep : \A j \in keep : i <= j,
                       CHOOSE i \in keep : \A j \in keep : i >= j)

RECURSIVE Concat(_)
Concat(parts) ==
    IF parts = <<>> THEN <<>> ELSE Head(parts) \o Concat(Tail(parts))

(***************************************************************************)
(* detect_document_type, src/main.py:80-92.                                *)
(***************************************************************************)
AadhaarKeywords ==
    << <<"a","a","d","h","a","a","r">>,
       <<"u","i","d","a","i">>,
       <<"g","o","v","t"," ","o","f"," ","i","n","d","i","a">>,
       <<"g","o","v","e","r","n","m","e","n","t"," ","o","f"," ","i","n","d","i","a">> >>

MarksheetKeywords ==
    << <<"m","a","r","k","s","h","e","e","t">>,
       <<"r","o","l","l"," ","n","u","m","b","e","r">>,
       <<"e","x","a","m">>,
       <<"g","r","a","d","e">>,
       <<"s","c","h","o","o","l">>,
       <<"u","n","i","v","e","r","s","i","t","y">> >>

TcKeywords ==
    << <<"t","r","a","n","s","f","e","r"," ","c","e","r","t","i","f","i","c","a","t","e">>,
       <<"T","R","A","N","S","F","E","R"," ","C","E","R","T","I","F","I","C","A","T","E">>,
       <<"t","c"," ","n","u","m","b","e","r">>,
       <<"a","d","m","i","s","s","i","o","n"," ","n","u","m","b","e","r">>,
       <<"c","o","n","d","u","c","t">>,
       <<"r","e","a","s","o","n"," ","f","o","r"," ","l","e","a","v","i","n","g">> >>

\* any(keyword in text_lower for keyword in keywords)
AnyKeywordIn(text_lower, keywords) ==
    \E i \in 1..Len(keywords) : Contains(text_lower, keywords[i])

\* a classifier that tests the marksheet keywords before the aadhaar ones
detect_document_type_marksheet_first(text) ==
    LET text_lower == lower(text)
    IN  IF AnyKeywordIn(text_lower, MarksheetKeywords) THEN "marksheet"
        ELSE IF AnyKeywordIn(text_lower, AadhaarKeywords) THEN "aadhaar"
        ELSE IF AnyKeywordIn(text_lower, TcKeywords) THEN "tc"
        ELSE "unknown"

detect_document_type(text) ==
    LET text_lower == lower(text)
    IN  IF AnyKeywordIn(text_lower, AadhaarKeywords) THEN "aadhaar"
        ELSE IF AnyKeywordIn(text_lower, MarksheetKeywords) THEN "marksheet"
        ELSE IF AnyKeywordIn(text_lower, TcKeywords) THEN "tc"
        ELSE "unknown"

(***************************************************************************)
(* The inputs of a request.                                                *)
(* A request's `file` argument is either the str that the declared route   *)
(* (GET /extract-data/{file:path}, `file: str`) binds, or an upload object *)
(* with .filename and .read(), which is what the handler's body uses.      *)
(* The content of an upload is described by what the decoders do with it:  *)
(*   pdf   : "opens" when fitz.open succeeds, "not_pdf" when it raises     *)
(*   page  : what loading and rendering page 0 does once the PDF is open   *)
(*   image : "valid" when PIL opens and verifies it, "corrupt" when it     *)
(*           opens and verify() raises, "not_image" when open raises       *)
(***************************************************************************)
DotPdf == <<".","p","d","f">>

Filenames ==
    { <<"s","c","a","n",".","p","d","f">>,
      <<"S","C","A","N",".","P","D","F">>,
      <<"s","c","a","n",".","p","n","g">>,
      <<"p","d","f">> }

Contents ==
    { c \in [pdf : {"opens", "not_pdf"},
             page : {"ok", "no_pages", "encrypted", "render_error", "none"},
             image : {"valid", "corrupt", "not_image"}] :
        (c.pdf = "not_pdf") <=> (c.page = "none") }

Files ==
    {[kind |-> "path_str"]} \cup
    [kind : {"upload"}, filename : Filenames, content : Contents]

\* pieces the transcription returned by the service is assembled from
Fragments ==
    { <<"A","A","D","H","A","A","R">>,
      <<"E","x","a","m">>,
      <<"T","R","A","N","S","F","E","R"," ">>,
      <<"C","e","r","t","i","f","i","c","a","t","e">>,
      <<"C","o","n","d","u","c","t">>,
      <<"h","e","l","l","o">> }

Texts ==
    { Concat(parts) : parts \in UNION {[1..n -> Fragments] : n \in 0..MaxFrags} }

\* what the service does with the "extract all readable text" request
ProbeOutcomes ==
    [kind : {"text"}, text : Texts] \cup
    [kind : {"image_error", "call_error", "no_text"}, text : {<<>>}]

\* JSON documents the service may put in its answer, as single tokens
JsonObject == "{\"name\": \"X\"}"
JsonEmptyObject == "{}"
JsonArray == "[1]"
JsonString == "\"X\""
NotJson == "Sorry, I cannot read this document."

\* the backquote character
Backquote == "backquote"
Fence == <<Backquote, Backquote, Backquote>>
FenceJson == <<Backquote, Backquote, Backquote, "j", "s", "o", "n">>

\* what the service does with the structured-extraction request
ExtractReplies ==
    [kind : {"text"},
     text : { <<>>,
              <<" ", "\n">>,
              <<NotJson>>,
              FenceJson \o <<"\n", JsonObject, "\n">> \o Fence,
              <<" ", JsonObject, "\n">>,
              <<JsonEmptyObject>>,
              <<JsonArray>>,
              Fence \o <<JsonString>> \o Fence }] \cup
    [kind : {"call_error"}, text : {<<>>}]

(***************************************************************************)
(* Values of the handler's locals.                                         *)
(***************************************************************************)
None == [kind |-> "None", of |-> "None"]
BytesIO(what) == [kind |-> "BytesIO", of |-> what]
NoFile == [kind |-> "none"]
Unread == [pdf |-> "unread", page |-> "unread", image |-> "unread"]
Unasked == [kind |-> "unasked", text |-> <<>>]
NoException == [type |-> "none"]
NoResponse == [status_code |-> -1, content |-> [pending |-> TRUE]]

HTTPException(status_code, detail) ==
    [type |-> "HTTPException", status_code |-> status_code, detail |-> detail]
PyException(type, message) ==
    [type |-> type, message |-> [msg |-> message, arg |-> <<>>]]

\* the detail strings of the four HTTPExceptions; arg is the interpolated filename
UnsupportedFormat ==
    [msg |-> "Unsupported file format. Upload a valid PDF or image.", arg |-> <<>>]
ConversionFailed(filename) ==
    [msg |-> "Failed to process {file.filename}", arg |-> filename]
UnrecognizedDocumentType ==
    [msg |-> "Could not detect document type. Ensure it's an Aadhaar card or marksheet.",
     arg |-> <<>>]
ExtractionFailed(filename) ==
    [msg |-> "Failed to extract data from {file.filename}", arg |-> filename]

(***************************************************************************)
(* The helper functions.  Each returns a record: value is the Python       *)
(* return value, opened the decoder handles the call opened, left_open     *)
(* those it returned without closing.                                      *)
(***************************************************************************)
\* a validate_pdf that trusts the structural parse alone
validate_pdf_parse_only(filename, content) ==
    IF content.pdf = "opens"
    THEN [value |-> TRUE, opened |-> {"validate_pdf.doc"}, left_open |-> {}]
    ELSE [value |-> FALSE, opened |-> {}, left_open |-> {}]

validate_pdf(filename, content) ==
    IF ~endswith(lower(filename), DotPdf)
    THEN [value |-> FALSE, opened |-> {}, left_open |-> {}]
    ELSE IF content.pdf = "opens"
         THEN [value |-> TRUE, opened |-> {"validate_pdf.doc"}, left_open |-> {}]
         ELSE [value |-> FALSE, opened |-> {}, left_open |-> {}]

validate_image(filename, content) ==
    CASE content.image = "valid" ->
           [value |-> TRUE, opened |-> {"validate_image.img"},
            left_open |-> {"validate_image.img"}]
      [] content.image = "corrupt" ->
           [value |-> FALSE, opened |-> {"validate_image.img"},
            left_open |-> {"validate_image.img"}]
      [] OTHER ->
           [value |-> FALSE, opened |-> {}, left_open |-> {}]

\* a converter that answers a blank image when the page cannot be rendered
convert_pdf_to_image_placeholder(pdf_content) ==
    CASE pdf_content.pdf # "opens" ->
           [value |-> BytesIO("placeholder"), opened |-> {}, left_open |-> {}]
      [] pdf_content.page = "ok" ->
           [value |-> BytesIO("page_0_png"),
            opened |-> {"convert_pdf_to_image.pdf_document"}, left_open |-> {}]
      [] OTHER ->
           [value |-> BytesIO("placeholder"),
            opened |-> {"convert_pdf_to_image.pdf_document"},
            left_open |-> {"convert_pdf_to_image.pdf_document"}]

convert_pdf_to_image(pdf_content) ==
    CASE pdf_content.pdf # "opens" ->
           [value |-> None, opened |-> {}, left_open |-> {}]
      [] pdf_content.page = "ok" ->
           [value |-> BytesIO("page_0_png"),
            opened |-> {"convert_pdf_to_image.pdf_document"}, left_open |-> {}]
      [] OTHER ->
           [value |-> None,
            opened |-> {"convert_pdf_to_image.pdf_document"},
            left_open |-> {"convert_pdf_to_image.pdf_document"}]

\* the result of a call that returned `value`; calls counts generate_content calls
Returned(value, n, handles) ==
    [raised |-> FALSE, value |-> value, exc |-> NoException, calls |-> n,
     opened |-> handles, left_open |-> handles]
\* the result of a call that raised `e`
Raised(e, n, handles) ==
    [raised |-> TRUE, value |-> None, exc |-> e, calls |-> n,
     opened |-> handles, left_open |-> handles]

\* a text probe whose try block covers only the image decoding
extract_text_from_image_propagating(image_source, outcome) ==
    CASE outcome.kind = "image_error" -> Returned(<<>>, 0, {})
      [] outcome.kind = "call_error" ->
           Raised(PyException("GoogleAPIError", "generate_content failed"), 1,
                  {"extract_text_from_image.img"})
      [] outcome.kind = "no_text" ->
           Raised(PyException("ValueError", "response.text has no valid Part"), 1,
                  {"extract_text_from_image.img"})
      [] OTHER -> Returned(strip(outcome.text), 1, {"extract_text_from_image.img"})

\* a text probe that asks the service a second time when the first call fails
extract_text_from_image_retrying(image_source, outcome) ==
    CASE outcome.kind = "image_error" -> Returned(<<>>, 0, {})
      [] outcome.kind \in {"call_error", "no_text"} ->
           Returned(<<>>, 2, {"extract_text_from_image.img"})
      [] OTHER -> Returned(strip(outcome.text), 1, {"extract_text_from_image.img"})

\* lines 67-78.  The constructor call of line 69 stands outside the try block;
\* it only stores the model name and sends nothing, so it does not raise.
\* PIL.Image.open, generate_content and response.text are inside the try block.
extract_text_from_image(image_source, outcome) ==
    CASE outcome.kind = "image_error" -> Returned(<<>>, 0, {})
      [] outcome.kind \in {"call_error", "no_text"} ->
           Returned(<<>>, 1, {"extract_text_from_image.img"})
      [] OTHER -> Returned(strip(outcome.text), 1, {"extract_text_from_image.img"})

(***************************************************************************)
(* extract_data.  The module defines the name twice: the helper at line 94 *)
(* and the route handler at line 108.  The second def rebinds the name, so *)
(* at request time extract_data is the one-parameter route handler.        *)
(***************************************************************************)
\* str.replace(old, '')
RECURSIVE replace_with_empty(_, _)
replace_with_empty(s, old) ==
    IF Len(s) < Len(old) \/ Len(old) = 0 THEN s
    ELSE IF SubSeq(s, 1, Len(old)) = old
         THEN replace_with_empty(SubSeq(s, Len(old) + 1, Len(s)), old)
         ELSE <<Head(s)>> \o replace_with_empty(Tail(s), old)

\* the Python value of each JSON document
Parsed(doc) ==
    CASE doc = JsonObject -> [kind |-> "dict", of |-> JsonObject]
      [] doc = JsonEmptyObject -> [kind |-> "dict", of |-> JsonEmptyObject]
      [] doc = JsonArray -> [kind |-> "list", of |-> JsonArray]
      [] doc = JsonString -> [kind |-> "str", of |-> JsonString]

\* json.loads: one JSON document, whitespace allowed around it
json_loads(s) ==
    LET body == SelectSeq(s, LAMBDA c : c \notin Whitespace)
    IN  IF Len(body) = 1 /\ body[1] \in {JsonObject, JsonEmptyObject, JsonArray, JsonString}
        THEN [ok |-> TRUE, value |-> Parsed(body[1])]
        ELSE [ok |-> FALSE, value |-> None]

\* bool(value)
truthy(value) ==
    /\ value.kind # "None"
    /\ ~(value.kind = "dict" /\ value.of = JsonEmptyObject)

\* the function defined at line 94
extract_data_helper(image_source, prompt_text, reply) ==
    IF reply.kind = "call_error"
    THEN Returned(None, 1, {"extract_data.img"})
    ELSE LET json_str == strip(replace_with_empty(
                             replace_with_empty(strip(reply.text), FenceJson), Fence))
             loaded == json_loads(json_str)
         IN  Returned(IF loaded.ok THEN loaded.value ELSE None, 1, {"extract_data.img"})

\* what the module-level name extract_data is bound to once the module is loaded
extract_data_binding == "route_handler"

\* the call extract_data(img_data, prompt) of line 187
call_extract_data(image_source, prompt_text, reply) ==
    IF extract_data_binding = "route_handler"
    THEN Raised(PyException("TypeError",
                  "extract_data() takes 1 positional argument but 2 were given"), 0, {})
    ELSE extract_data_helper(image_source, prompt_text, reply)

(***************************************************************************)
(* The route handler, src/main.py:107-200, one action per statement.       *)
(* A handle a function leaves open when it returns is no longer referenced *)
(* by anything; whether the runtime has finalized it is not determined by  *)
(* the program, so either outcome is possible.                             *)
(***************************************************************************)
\* a format check that rejects nothing
unsupported_never(p, i) == FALSE

\* line 120: not (is_pdf or is_image)
unsupported(p, i) == ~(p \/ i)

\* a prompt selection whose last branch is the marksheet prompt
select_prompt_always(dtype) ==
    IF dtype = "aadhaar" THEN "aadhaar_prompt" ELSE "marksheet_prompt"

\* lines 139-184: the prompt of a document type, "none" for the else branch
select_prompt(dtype) ==
    CASE dtype = "aadhaar" -> "aadhaar_prompt"
      [] dtype \in {"marksheet", "tc"} -> "marksheet_prompt"
      [] OTHER -> "none"

Repeat(name, n) == [k \in 1..n |-> name]

Init ==
    /\ pc = "idle"
    /\ file = NoFile
    /\ service = [probe |-> Unasked, extract |-> Unasked]
    /\ file_content = Unread
    /\ is_pdf = FALSE
    /\ is_image = FALSE
    /\ img_data = None
    /\ extracted_text = <<>>
    /\ document_type = "unassigned"
    /\ prompt = "unassigned"
    /\ exc = NoException
    /\ response = NoResponse
    /\ open_handles = {}
    /\ opened = {}
    /\ calls = <<>>

\* line 108: the handler is entered with its argument
Receive ==
    /\ pc = "idle"
    /\ \E f \in Files : file' = f
    /\ pc' = "read"
    /\ UNCHANGED <<service, file_content, is_pdf, is_image, img_data, extracted_text,
                   document_type, prompt, exc, response, open_handles, opened, calls>>

\* line 114: file_content = await file.read()
ReadFile ==
    /\ pc = "read"
    /\ IF file.kind = "path_str"
       THEN /\ exc' = PyException("AttributeError",
                                  "'str' object has no attribute 'read'")
            /\ pc' = "except_Exception"
            /\ UNCHANGED file_content
       ELSE /\ file_content' = file.content
            /\ pc' = "validate_pdf"
            /\ UNCHANGED exc
    /\ UNCHANGED <<file, service, is_pdf, is_image, img_data, extracted_text,
                   document_type, prompt, response, open_handles, opened, calls>>

\* line 117: is_pdf = validate_pdf(file.filename, file_content)
ValidatePdf ==
    /\ pc = "validate_pdf"
    /\ LET r == validate_pdf(file.filename, file_content)
       IN  /\ is_pdf' = r.value
           /\ opened' = opened \cup r.opened
           /\ \E kept \in SUBSET r.left_open : open_handles' = open_handles \cup kept
    /\ pc' = "validate_image"
    /\ UNCHANGED <<file, service, file_content, is_image, img_data, extracted_text,
                   document_type, prompt, exc, response, calls>>

\* line 118: is_image = validate_image(file.filename, file_content)
ValidateImage ==
    /\ pc = "validate_image"
    /\ LET r == validate_image(file.filename, file_content)
       IN  /\ is_image' = r.value
           /\ opened' = opened \cup r.opened
           /\ \E kept \in SUBSET r.left_open : open_handles' = open_handles \cup kept
    /\ pc' = "check_format"
    /\ UNCHANGED <<file, service, file_content, is_pdf, img_data, extracted_text,
                   document_type, prompt, exc, response, calls>>

\* lines 120-124
CheckFormat ==
    /\ pc = "check_format"
    /\ IF unsupported(is_pdf, is_image)
       THEN /\ exc' = HTTPException(400, UnsupportedFormat)
            /\ pc' = "except_HTTPException"
       ELSE /\ pc' = "convert"
            /\ UNCHANGED exc
    /\ UNCHANGED <<file, service, file_content, is_pdf, is_image, img_data,
                   extracted_text, document_type, prompt, response, open_handles,
                   opened, calls>>

\* lines 127-133
Convert ==
    /\ pc = "convert"
    /\ LET r == IF is_pdf THEN convert_pdf_to_image(file_content)
                ELSE [value |-> BytesIO("file_content"), opened |-> {}, left_open |-> {}]
       IN  /\ img_data' = r.value
           /\ opened' = opened \cup r.opened
           /\ \E kept \in SUBSET r.left_open : open_handles' = open_handles \cup kept
           /\ calls' = IF is_pdf THEN Append(calls, "convert_pdf_to_image") ELSE calls
           /\ IF r.value = None
              THEN /\ exc' = HTTPException(400, ConversionFailed(file.filename))
                   /\ pc' = "except_HTTPException"
              ELSE /\ pc' = "probe"
                   /\ UNCHANGED exc
    /\ UNCHANGED <<file, service, file_content, is_pdf, is_image, extracted_text,
                   document_type, prompt, response>>

\* line 136: extracted_text = extract_text_from_image(img_data)
Probe ==
    /\ pc = "probe"
    /\ \E outcome \in ProbeOutcomes :
         LET r == extract_text_from_image(img_data, outcome)
         IN  /\ service' = [service EXCEPT !.probe = outcome]
             /\ opened' = opened \cup r.opened
             /\ \E kept \in SUBSET r.left_open : open_handles' = open_handles \cup kept
             /\ calls' = calls \o Repeat("generate_content(text)", r.calls)
             /\ IF r.raised
                THEN /\ exc' = r.exc
                     /\ pc' = "except_Exception"
                     /\ UNCHANGED extracted_text
                ELSE /\ extracted_text' = r.value
                     /\ pc' = "detect"
                     /\ UNCHANGED exc
    /\ UNCHANGED <<file, file_content, is_pdf, is_image, img_data, document_type,
                   prompt, response>>

\* line 137: document_type = detect_document_type(extracted_text)
Detect ==
    /\ pc = "detect"
    /\ document_type' = detect_document_type(extracted_text)
    /\ pc' = "select_prompt"
    /\ UNCHANGED <<file, service, file_content, is_pdf, is_image, img_data,
                   extracted_text, prompt, exc, response, open_handles, opened, calls>>

\* lines 139-184
SelectPrompt ==
    /\ pc = "select_prompt"
    /\ IF select_prompt(document_type) = "none"
       THEN /\ exc' = HTTPException(400, UnrecognizedDocumentType)
            /\ pc' = "except_HTTPException"
            /\ UNCHANGED prompt
       ELSE /\ prompt' = select_prompt(document_type)
            /\ pc' = "extract"
            /\ UNCHANGED exc
    /\ UNCHANGED <<file, service, file_content, is_pdf, is_image, img_data,
                   extracted_text, document_type, response, open_handles, opened, calls>>

\* lines 187-194; reply is the answer the service has for a structured-extraction
\* request on this document at this moment, whether or not one is sent
Extract ==
    /\ pc = "extract"
    /\ \E reply \in ExtractReplies :
       LET r == call_extract_data(img_data, prompt, reply)
       IN  /\ service' = [service EXCEPT !.extract = reply]
           /\ opened' = opened \cup r.opened
           /\ \E kept \in SUBSET r.left_open : open_handles' = open_handles \cup kept
           /\ calls' = Append(calls, "extract_data")
                         \o Repeat("generate_content(prompt)", r.calls)
           /\ IF r.raised
              THEN /\ exc' = r.exc
                   /\ pc' = "except_Exception"
                   /\ UNCHANGED response
              ELSE IF ~truthy(r.value)
              THEN /\ exc' = HTTPException(400, ExtractionFailed(file.filename))
                   /\ pc' = "except_HTTPException"
                   /\ UNCHANGED response
              ELSE /\ response' = [status_code |-> 200,
                                   content |-> [document_type |-> document_type,
                                                data |-> r.value]]
                   /\ pc' = "done"
                   /\ UNCHANGED exc
    /\ UNCHANGED <<file, file_content, is_pdf, is_image, img_data,
                   extracted_text, document_type, prompt>>

\* lines 196-197
ExceptHTTPException ==
    /\ pc = "except_HTTPException"
    /\ response' = [status_code |-> exc.status_code, content |-> [error |-> exc.detail]]
    /\ pc' = "done"
    /\ UNCHANGED <<file, service, file_content, is_pdf, is_image, img_data,
                   extracted_text, document_type, prompt, exc, open_handles, opened,
                   calls>>

\* lines 198-200
ExceptException ==
    /\ pc = "except_Exception"
    /\ response' = [status_code |-> 500, content |-> [error |-> exc.message]]
    /\ pc' = "done"
    /\ UNCHANGED <<file, service, file_content, is_pdf, is_image, img_data,
                   extracted_text, document_type, prompt, exc, open_handles, opened,
                   calls>>

Next ==
    \/ Receive
    \/ ReadFile
    \/ ValidatePdf
    \/ ValidateImage
    \/ CheckFormat
    \/ Convert
    \/ Probe
    \/ Detect
    \/ SelectPrompt
    \/ Extract
    \/ ExceptHTTPException
    \/ ExceptException

Spec == Init /\ [][Next]_vars

(***************************************************************************)
(* Properties.                                                             *)
(***************************************************************************)
Range(seq) == {seq[i] : i \in 1..Len(seq)}
Count(seq, x) == Cardinality({i \in 1..Len(seq) : seq[i] = x})
InferenceCalls == {"generate_content(text)", "generate_content(prompt)"}
Done == pc = "done"
Uploaded == file.kind = "upload"
RespondedError(status_code, detail) ==
    /\ response.status_code = status_code
    /\ response.content = [error |-> detail]

\* the registered keyword sets, as the design document lists them
RegisteredAadhaar ==
    { <<"a","a","d","h","a","a","r">>,
      <<"u","i","d","a","i">>,
      <<"g","o","v","t"," ","o","f"," ","i","n","d","i","a">>,
      <<"g","o","v","e","r","n","m","e","n","t"," ","o","f"," ","i","n","d","i","a">> }
RegisteredMarksheet ==
    { <<"m","a","r","k","s","h","e","e","t">>,
      <<"r","o","l","l"," ","n","u","m","b","e","r">>,
      <<"e","x","a","m">>,
      <<"g","r","a","d","e">>,
      <<"s","c","h","o","o","l">>,
      <<"u","n","i","v","e","r","s","i","t","y">> }
RegisteredTc ==
    { <<"t","r","a","n","s","f","e","r"," ","c","e","r","t","i","f","i","c","a","t","e">>,
      <<"t","c"," ","n","u","m","b","e","r">>,
      <<"a","d","m","i","s","s","i","o","n"," ","n","u","m","b","e","r">>,
      <<"c","o","n","d","u","c","t">>,
      <<"r","e","a","s","o","n"," ","f","o","r"," ","l","e","a","v","i","n","g">> }

Mentions(text, registered) == \E k \in registered : Contains(lower(text), k)
NoRegisteredKeyword(text) ==
    ~Mentions(text, RegisteredAadhaar \cup RegisteredMarksheet \cup RegisteredTc)

\* C1: an upload whose bytes fail both the PDF-structure check and the
\* image-decode check never reaches rasterization or an inference call, and
\* its request ends with status 400 and the UnsupportedFormat error body.
C1_UnsupportedFormat ==
    (Uploaded /\ file.content.pdf = "not_pdf" /\ file.content.image # "valid")
        => /\ calls = <<>>
           /\ Done => RespondedError(400, UnsupportedFormat)

C1_Witness ==
    /\ Done /\ Uploaded
    /\ file.content.pdf = "not_pdf" /\ file.content.image = "corrupt"
    /\ endswith(lower(file.filename), DotPdf)
    /\ response.status_code = 400

\* C2: when detect_document_type has returned, the document type is the first of aadhaar, marksheet,
\* tc whose registered keyword set has a keyword that is a substring of the
\* lower-cased text, and unknown when no registered keyword occurs in it.
C2_FirstMatchWins ==
    (pc = "select_prompt") =>
        LET a == Mentions(extracted_text, RegisteredAadhaar)
            m == Mentions(extracted_text, RegisteredMarksheet)
            t == Mentions(extracted_text, RegisteredTc)
        IN  /\ (document_type = "aadhaar") <=> a
            /\ (document_type = "marksheet") <=> (~a /\ m)
            /\ (document_type = "tc") <=> (~a /\ ~m /\ t)
            /\ (document_type = "unknown") <=> (~a /\ ~m /\ ~t)

C2_Witness ==
    /\ Mentions(extracted_text, RegisteredAadhaar)
    /\ Mentions(extracted_text, RegisteredMarksheet)
    /\ ~Contains(extracted_text, <<"a","a","d","h","a","a","r">>)
    /\ document_type = "aadhaar"

\* C3: when the service transcribed a text with no registered keyword, the
\* document type is unknown, extract_data is never called, and the request ends
\* with status 400 and the UnrecognizedDocumentType error body.
C3_UnknownIsTerminal ==
    (service.probe.kind = "text" /\ NoRegisteredKeyword(service.probe.text)) =>
        /\ "extract_data" \notin Range(calls)
        /\ "generate_content(prompt)" \notin Range(calls)
        /\ document_type \in {"unassigned", "unknown"}
        /\ Done => /\ document_type = "unknown"
                   /\ RespondedError(400, UnrecognizedDocumentType)

C3_Witness ==
    /\ Done
    /\ service.probe.kind = "text"
    /\ service.probe.text = <<"h","e","l","l","o">>
    /\ response.status_code = 400

Stripped(reply) ==
    strip(replace_with_empty(replace_with_empty(strip(reply.text), FenceJson), Fence))
ExtractionAttempted == "extract_data" \in Range(calls)

\* C5: when structured extraction was attempted and the service's reply is empty
\* or not JSON once whitespace and code fences are stripped, the request ends
\* with status 400 and the ExtractionFailed error body; when the reply is the
\* fenced object, the request ends with a success body whose data is the object.
C5_ExtractionFailedOrParsed ==
    (Done /\ ExtractionAttempted /\ service.extract.kind = "text") =>
        /\ ~json_loads(Stripped(service.extract)).ok =>
               RespondedError(400, ExtractionFailed(file.filename))
        /\ Stripped(service.extract) = <<JsonObject>> =>
               /\ response.status_code = 200
               /\ response.content =
                      [document_type |-> document_type, data |-> Parsed(JsonObject)]

\* C6: when structured extraction was attempted and the service's reply is
\* well-formed JSON that is not an object, the request ends with status 400 and
\* the ExtractionFailed error body.
C6_NonObjectRejected ==
    (Done /\ ExtractionAttempted /\ service.extract.kind = "text"
          /\ json_loads(Stripped(service.extract)).ok
          /\ json_loads(Stripped(service.extract)).value.kind # "dict") =>
        RespondedError(400, ExtractionFailed(file.filename))

\* C7: when the probing stage fails inside (image undecodable, inference call
\* error, response without text), the probe returns the empty string, no
\* exception leaves it, and the request ends with status 400 and the
\* UnrecognizedDocumentType error body.
C7_ProbeNeverRaises ==
    (service.probe.kind \in {"image_error", "call_error", "no_text"}) =>
        /\ extracted_text = <<>>
        /\ exc.type \in {"none", "HTTPException"}
        /\ pc \in {"detect", "select_prompt", "except_HTTPException", "done"}
        /\ Done => /\ document_type = "unknown"
                   /\ RespondedError(400, UnrecognizedDocumentType)

C7_Witness ==
    /\ Done
    /\ service.probe.kind = "call_error"
    /\ response.status_code = 400

\* C8: when the upload is classified as PDF and its first page cannot be
\* rasterized, no image is substituted, no inference call is made, and the
\* request ends with status 400 and the ConversionFailed error body, which is
\* not the UnsupportedFormat one.
C8_ConversionFailed ==
    (Uploaded /\ is_pdf /\ file.content.page # "ok") =>
        /\ img_data = None
        /\ Range(calls) \cap InferenceCalls = {}
        /\ "extract_data" \notin Range(calls)
        /\ Done => /\ RespondedError(400, ConversionFailed(file.filename))
                   /\ response.content # [error |-> UnsupportedFormat]

C8_Witness ==
    /\ Done /\ Uploaded /\ is_pdf
    /\ file.content.page = "no_pages"
    /\ calls = <<"convert_pdf_to_image">>
    /\ response.status_code = 400

C10_AllHandlesReleased ==
    Done => open_handles = {}

====
